---- MODULE Spec2Model ----
(***************************************************************************)
(* A model of minecraft-xp.js: the piecewise level-cost formulas, the      *)
(* linear level lookup, the ASCII progress bar (computed in IEEE-754       *)
(* double arithmetic, as JavaScript Numbers are), the status record, the   *)
(* range difference, the gain simulation loop and the threshold table.     *)
(***************************************************************************)
EXTENDS Integers, Sequences, FiniteSets, TLC

\* ------------------------------------------------------------------ bounds
MaxLevel == 40
MaxXP == 1800
MaxCurrent == 23
MaxTotal == 23
MaxWidth == 20
MaxGains == 3

\* Width of the significand of a JavaScript Number (IEEE-754 binary64).
MantissaBits == 53
\* Default value of the barWidth parameter.
DefaultBarWidth == 20

\* ------------------------------------------------ JavaScript Number values
\* The Numbers that current / total, Math.min, * barWidth and Math.round can
\* produce: NaN, +-Infinity, zero (the sign of zero never shows in a result
\* of this module) and finite non-zero doubles s * 1.m * 2^e with m the
\* MantissaBits significand bits, most significant (always 1) first.
NaN == [k |-> "nan", s |-> 1, e |-> 0, m |-> <<>>]
Infinity(s) == [k |-> "inf", s |-> s, e |-> 0, m |-> <<>>]
Zero == [k |-> "zero", s |-> 1, e |-> 0, m |-> <<>>]
Fin(s, e, m) == [k |-> "fin", s |-> s, e |-> e, m |-> m]
One == Fin(1, 0, [j \in 1..MantissaBits |-> IF j = 1 THEN 1 ELSE 0])

Sign(n) == IF n < 0 THEN -1 ELSE 1
Abs(n) == IF n < 0 THEN -n ELSE n

\* Arithmetic on the 53-bit significands is done on four 13-bit limbs below
\* the leading bit, so that every intermediate value fits a machine integer;
\* this covers operands of magnitude below 2^17.
Limb == 2^13
LimbBits(n) == [j \in 1..13 |-> (n \div 2^(13 - j)) % 2]

BitsToInt(bits) ==
    LET RECURSIVE val(_)
        val(j) == IF j = 0 THEN 0 ELSE 2 * val(j - 1) + bits[j]
    IN  val(Len(bits))

RECURSIVE ToBits(_)
ToBits(n) == IF n = 0 THEN <<>> ELSE Append(ToBits(n \div 2), n % 2)

\* Round-to-nearest, ties-to-even of a bit string with leading 1 to
\* MantissaBits bits; sticky tells whether a non-zero tail was cut off
\* after the last bit given.  carry = 1 when rounding up overflowed into the
\* next binade.
RoundNearestEven(bits, sticky) ==
    IF Len(bits) <= MantissaBits
    THEN [m |-> [j \in 1..MantissaBits |-> IF j <= Len(bits) THEN bits[j] ELSE 0],
          carry |-> 0]
    ELSE LET head == SubSeq(bits, 1, MantissaBits)
             tail == sticky \/ \E j \in (MantissaBits + 2)..Len(bits) : bits[j] = 1
             up == bits[MantissaBits + 1] = 1 /\ (tail \/ head[MantissaBits] = 1)
             zs == {j \in 1..MantissaBits : head[j] = 0}
             last == CHOOSE j \in zs : \A z \in zs : z <= j
         IN  IF ~up THEN [m |-> head, carry |-> 0]
             ELSE IF zs = {}
             THEN [m |-> [j \in 1..MantissaBits |-> IF j = 1 THEN 1 ELSE 0], carry |-> 1]
             ELSE [m |-> [j \in 1..MantissaBits |->
                             IF j < last THEN head[j] ELSE IF j = last THEN 1 ELSE 0],
                   carry |-> 0]

\* Scale n / d (both positive) into [1, 2): n/d = N/D * 2^e.
RECURSIVE Normalize(_, _, _)
Normalize(n, d, e) ==
    IF n < d THEN Normalize(2 * n, d, e - 1)
    ELSE IF n >= 2 * d THEN Normalize(n, 2 * d, e + 1)
    ELSE [N |-> n, D |-> d, e |-> e]

\* Binary long division of N / D in [1, 2): the leading 1, the next 52
\* quotient bits, the 54th (rounding) bit, and the remainder left.
LongDiv(N, D) ==
    LET r0 == N - D
        q1 == (r0 * Limb) \div D
        r1 == (r0 * Limb) % D
        q2 == (r1 * Limb) \div D
        r2 == (r1 * Limb) % D
        q3 == (r2 * Limb) \div D
        r3 == (r2 * Limb) % D
        q4 == (r3 * Limb) \div D
        r4 == (r3 * Limb) % D
    IN  [bits |-> <<1>> \o LimbBits(q1) \o LimbBits(q2) \o LimbBits(q3) \o LimbBits(q4)
                       \o <<(2 * r4) \div D>>,
         rem |-> (2 * r4) % D]

\* The JavaScript / operator on two integer-valued Numbers.
NumDiv(x, y) ==
    IF y = 0
    THEN (IF x = 0 THEN NaN ELSE Infinity(Sign(x)))
    ELSE IF x = 0 THEN Zero
    ELSE LET nz == Normalize(Abs(x), Abs(y), 0)
             q == LongDiv(nz.N, nz.D)
             r == RoundNearestEven(q.bits, q.rem # 0)
         IN  Fin(Sign(x) * Sign(y), nz.e + r.carry, r.m)

\* Math.min(x, 1).
MathMin1(x) ==
    CASE x.k = "nan" -> NaN
      [] x.k = "inf" -> (IF x.s = 1 THEN One ELSE x)
      [] x.k = "zero" -> Zero
      [] OTHER -> (IF x.s = 1 /\ x.e >= 0 THEN One ELSE x)

\* Exact product of a significand with a positive integer, as a bit string
\* with leading 1.
MulBits(m, w) ==
    LET t4 == BitsToInt(SubSeq(m, 41, 53)) * w
        t3 == BitsToInt(SubSeq(m, 28, 40)) * w + t4 \div Limb
        t2 == BitsToInt(SubSeq(m, 15, 27)) * w + t3 \div Limb
        t1 == BitsToInt(SubSeq(m, 1, 14)) * w + t2 \div Limb
    IN  ToBits(t1) \o LimbBits(t2 % Limb) \o LimbBits(t3 % Limb) \o LimbBits(t4 % Limb)

\* The JavaScript * operator on a Number and a non-negative integer width.
NumMulInt(x, w) ==
    CASE x.k = "nan" -> NaN
      [] x.k = "inf" -> (IF w = 0 THEN NaN ELSE x)
      [] x.k = "zero" -> Zero
      [] OTHER ->
           IF w = 0 THEN Zero
           ELSE LET p == MulBits(x.m, w)
                    r == RoundNearestEven(p, FALSE)
                IN  Fin(x.s, x.e + (Len(p) - MantissaBits) + r.carry, r.m)

\* Math.round: the nearest integer, ties towards +Infinity.  The result is
\* NaN, +-Infinity or an integer v.
MathRound(x) ==
    CASE x.k = "nan" -> [k |-> "nan", v |-> 0]
      [] x.k = "inf" -> [k |-> "inf", v |-> x.s]
      [] x.k = "zero" -> [k |-> "int", v |-> 0]
      [] OTHER ->
           LET int == IF x.e < 0 THEN 0 ELSE BitsToInt(SubSeq(x.m, 1, x.e + 1))
               geHalf == x.e >= -1 /\ x.e + 2 <= MantissaBits /\ x.m[x.e + 2] = 1
               gtHalf == geHalf /\ \E j \in (x.e + 3)..MantissaBits : x.m[j] = 1
           IN  IF x.s = 1
               THEN [k |-> "int", v |-> int + (IF geHalf THEN 1 ELSE 0)]
               ELSE [k |-> "int", v |-> -(int + (IF gtHalf THEN 1 ELSE 0))]

\* barWidth - filledLength.
WidthMinus(w, f) ==
    CASE f.k = "nan" -> f
      [] f.k = "inf" -> [k |-> "inf", v |-> -f.v]
      [] OTHER -> [k |-> "int", v |-> w - f.v]

\* String.prototype.repeat: the count goes through ToIntegerOrInfinity (NaN
\* becomes 0); a negative or infinite count throws a RangeError.
StringRepeat(ch, count) ==
    CASE count.k = "nan" -> [threw |-> FALSE, value |-> <<>>]
      [] count.k = "inf" -> [threw |-> TRUE, value |-> "RangeError"]
      [] OTHER ->
           IF count.v < 0 THEN [threw |-> TRUE, value |-> "RangeError"]
           ELSE [threw |-> FALSE, value |-> [j \in 1..count.v |-> ch]]

\* ----------------------------------------------------------- the functions
filledLength(current, total, barWidth) ==
    MathRound(NumMulInt(MathMin1(NumDiv(current, total)), barWidth))

\* renderProgressBar with the fill count clamped at zero before repeat.
renderProgressBarClamped(current, total, barWidth) ==
    LET rounded == filledLength(current, total, barWidth)
        filled == IF rounded.k = "int" /\ rounded.v < 0 THEN [k |-> "int", v |-> 0] ELSE rounded
        emptyLength == WidthMinus(barWidth, filled)
        hashes == StringRepeat("#", filled)
        dashes == StringRepeat("-", emptyLength)
    IN  IF hashes.threw THEN hashes
        ELSE IF dashes.threw THEN dashes
        ELSE [threw |-> FALSE, value |-> <<"[">> \o hashes.value \o dashes.value \o <<"]">>]

renderProgressBar(current, total, barWidth) ==
    LET filled == filledLength(current, total, barWidth)
        emptyLength == WidthMinus(barWidth, filled)
        hashes == StringRepeat("#", filled)
        dashes == StringRepeat("-", emptyLength)
    IN  IF hashes.threw THEN hashes
        ELSE IF dashes.threw THEN dashes
        ELSE [threw |-> FALSE, value |-> <<"[">> \o hashes.value \o dashes.value \o <<"]">>]

\* xpForNextLevel with the first range closed at 16.
xpForNextLevelInclusive(level) ==
    IF level >= 0 /\ level <= 16 THEN 2 * level + 7
    ELSE IF level >= 16 /\ level < 31 THEN 5 * level - 38
    ELSE 9 * level - 158

xpForNextLevel(level) ==
    IF level >= 0 /\ level < 16 THEN 2 * level + 7
    ELSE IF level >= 16 /\ level < 31 THEN 5 * level - 38
    ELSE 9 * level - 158

\* The dividends of the two upper ranges of totalXPForLevel.
middleDividend(level) == 5 * level * level - 81 * level + 720
upperDividend(level) == 9 * level * level - 325 * level + 4440

\* n / 2 on an integer-valued Number; the quotient is the integer n \div 2
\* exactly when n is even.
Halve(n) == n \div 2

\* totalXPForLevel with the sign of the constant term of the middle range
\* flipped.
totalXPForLevelSign(level) ==
    IF level <= 0 THEN 0
    ELSE IF level <= 16 THEN level * level + 6 * level
    ELSE IF level <= 31 THEN Halve(5 * level * level - 81 * level - 720)
    ELSE Halve(upperDividend(level))

totalXPForLevel(level) ==
    IF level <= 0 THEN 0
    ELSE IF level <= 16 THEN level * level + 6 * level
    ELSE IF level <= 31 THEN Halve(middleDividend(level))
    ELSE Halve(upperDividend(level))

\* The while loop with a strict comparison.
RECURSIVE levelLoopStrict(_, _)
levelLoopStrict(level, totalXP) ==
    IF totalXPForLevel(level + 1) < totalXP THEN levelLoopStrict(level + 1, totalXP)
    ELSE level

\* The while loop of getLevelFromXP, entered with the given level.
RECURSIVE levelLoop(_, _)

levelLoop(level, totalXP) ==
    IF totalXPForLevel(level + 1) <= totalXP THEN levelLoop(level + 1, totalXP)
    ELSE level

\* getLevelFromXP counting from level 1.
getLevelFromXPFromOne(totalXP) == levelLoop(1, totalXP)

getLevelFromXP(totalXP) == levelLoop(0, totalXP)

\* getXPStatus with xpNeeded taken from the total instead of the in-level XP.
getXPStatusNeeded(totalXP, barWidth) ==
    LET level == getLevelFromXP(totalXP)
        xpAtCurrentLevelStart == totalXPForLevel(level)
        xpInLevel == totalXP - xpAtCurrentLevelStart
        xpForLevelUp == xpForNextLevel(level)
        xpNeeded == xpForLevelUp - totalXP
        progressRatio == NumDiv(xpInLevel, xpForLevelUp)
        progressBar == renderProgressBar(xpInLevel, xpForLevelUp, barWidth)
    IN  IF progressBar.threw THEN progressBar
        ELSE [threw |-> FALSE,
              value |-> [totalXP |-> totalXP,
                         level |-> level,
                         xpAtCurrentLevelStart |-> xpAtCurrentLevelStart,
                         xpInLevel |-> xpInLevel,
                         xpForLevelUp |-> xpForLevelUp,
                         xpNeeded |-> xpNeeded,
                         progressRatio |-> progressRatio,
                         progressBar |-> progressBar.value]]

getXPStatus(totalXP, barWidth) ==
    LET level == getLevelFromXP(totalXP)
        xpAtCurrentLevelStart == totalXPForLevel(level)
        xpInLevel == totalXP - xpAtCurrentLevelStart
        xpForLevelUp == xpForNextLevel(level)
        xpNeeded == xpForLevelUp - xpInLevel
        progressRatio == NumDiv(xpInLevel, xpForLevelUp)
        progressBar == renderProgressBar(xpInLevel, xpForLevelUp, barWidth)
    IN  IF progressBar.threw THEN progressBar
        ELSE [threw |-> FALSE,
              value |-> [totalXP |-> totalXP,
                         level |-> level,
                         xpAtCurrentLevelStart |-> xpAtCurrentLevelStart,
                         xpInLevel |-> xpInLevel,
                         xpForLevelUp |-> xpForLevelUp,
                         xpNeeded |-> xpNeeded,
                         progressRatio |-> progressRatio,
                         progressBar |-> progressBar.value]]

\* xpBetweenLevels without the range check.
xpBetweenLevelsUnchecked(startLevel, endLevel) ==
    [threw |-> FALSE, value |-> totalXPForLevel(endLevel) - totalXPForLevel(startLevel)]

xpBetweenLevels(startLevel, endLevel) ==
    IF startLevel > endLevel
    THEN [threw |-> TRUE, value |-> "Error: startLevel cannot be greater than endLevel"]
    ELSE [threw |-> FALSE, value |-> totalXPForLevel(endLevel) - totalXPForLevel(startLevel)]

\* The for loop of levelThresholds, entered with the given level.
RECURSIVE thresholdsLoop(_, _, _)
thresholdsLoop(level, upToLevel, thresholds) ==
    IF level <= upToLevel
    THEN thresholdsLoop(level + 1, upToLevel,
                        Append(thresholds, [level |-> level, totalXP |-> totalXPForLevel(level)]))
    ELSE thresholds

levelThresholds(upToLevel) == thresholdsLoop(0, upToLevel, <<>>)

\* ------------------------------------------------------------- the machine
\* One caller uses the exported functions one call at a time.  pc is "idle"
\* between calls, "loop" inside the for loop of simulateXPGain and "done"
\* when a call has returned or thrown; call and args name the call, ret is
\* its outcome; xp, steps and i are the locals of simulateXPGain.
VARIABLES pc, call, args, ret, xp, steps, i

vars == <<pc, call, args, ret, xp, steps, i>>

NoValue == [threw |-> FALSE, value |-> "undefined"]
Returned(v) == [threw |-> FALSE, value |-> v]

\* The inputs the calls are made with.
Levels == (-2)..MaxLevel
Experiences == (-3)..MaxXP
StatusWidths == {1, 3, DefaultBarWidth}
InitialXPs == {0, 3, 1000}
GainValues == {-8, 0, 7, 50, 200, 300}
RECURSIVE SeqsUpTo(_, _)
SeqsUpTo(S, n) ==
    IF n = 0 THEN {<<>>}
    ELSE LET shorter == SeqsUpTo(S, n - 1)
         IN  shorter \cup {Append(q, x) : q \in {r \in shorter : Len(r) = n - 1}, x \in S}
GainSeqs == SeqsUpTo(GainValues, MaxGains)

Init ==
    /\ pc = "idle"
    /\ call = "none"
    /\ args = <<>>
    /\ ret = NoValue
    /\ xp = 0
    /\ steps = <<>>
    /\ i = 0

\* The end of a call that runs to its end in one step.
Finish(name, arguments, outcome) ==
    /\ pc' = "done"
    /\ call' = name
    /\ args' = arguments
    /\ ret' = outcome
    /\ UNCHANGED <<xp, steps, i>>

CallXpForNextLevel ==
    /\ pc = "idle"
    /\ \E level \in Levels :
          Finish("xpForNextLevel", <<level>>, Returned(xpForNextLevel(level)))

CallTotalXPForLevel ==
    /\ pc = "idle"
    /\ \E level \in Levels :
          Finish("totalXPForLevel", <<level>>, Returned(totalXPForLevel(level)))

CallGetLevelFromXP ==
    /\ pc = "idle"
    /\ \E totalXP \in Experiences :
          Finish("getLevelFromXP", <<totalXP>>, Returned(getLevelFromXP(totalXP)))

CallRenderProgressBar ==
    /\ pc = "idle"
    /\ \E current \in (-3)..MaxCurrent, total \in 0..MaxTotal, barWidth \in 1..MaxWidth :
          Finish("renderProgressBar", <<current, total, barWidth>>,
                  renderProgressBar(current, total, barWidth))

CallGetXPStatus ==
    /\ pc = "idle"
    /\ \E totalXP \in Experiences, barWidth \in StatusWidths :
          Finish("getXPStatus", <<totalXP, barWidth>>, getXPStatus(totalXP, barWidth))

CallXpBetweenLevels ==
    /\ pc = "idle"
    /\ \E startLevel \in Levels, endLevel \in Levels :
          Finish("xpBetweenLevels", <<startLevel, endLevel>>,
                  xpBetweenLevels(startLevel, endLevel))

CallLevelThresholds ==
    /\ pc = "idle"
    /\ \E upToLevel \in Levels :
          Finish("levelThresholds", <<upToLevel>>, Returned(levelThresholds(upToLevel)))

\* simulateXPGain: entry, one iteration of the for loop, and the return.
CallSimulateXPGain ==
    /\ pc = "idle"
    /\ \E initialXP \in InitialXPs, gains \in GainSeqs :
          /\ pc' = "loop"
          /\ call' = "simulateXPGain"
          /\ args' = <<initialXP, gains>>
          /\ xp' = initialXP
          /\ steps' = <<>>
          /\ i' = 0
          /\ UNCHANGED ret

\* The loop body taking the status before the gain is added.
SimulateStepStale ==
    /\ pc = "loop"
    /\ i < Len(args[2])
    /\ LET status == getXPStatus(xp, DefaultBarWidth)
       IN  /\ xp' = xp + args[2][i + 1]
           /\ IF status.threw
              THEN /\ pc' = "done"
                   /\ ret' = status
                   /\ UNCHANGED <<steps, i>>
              ELSE /\ steps' = Append(steps, status.value)
                   /\ i' = i + 1
                   /\ UNCHANGED <<pc, ret>>
    /\ UNCHANGED <<call, args>>

SimulateStep ==
    /\ pc = "loop"
    /\ i < Len(args[2])
    /\ LET status == getXPStatus(xp + args[2][i + 1], DefaultBarWidth)
       IN  /\ xp' = xp + args[2][i + 1]
           /\ IF status.threw
              THEN /\ pc' = "done"
                   /\ ret' = status
                   /\ UNCHANGED <<steps, i>>
              ELSE /\ steps' = Append(steps, status.value)
                   /\ i' = i + 1
                   /\ UNCHANGED <<pc, ret>>
    /\ UNCHANGED <<call, args>>

SimulateReturn ==
    /\ pc = "loop"
    /\ i >= Len(args[2])
    /\ pc' = "done"
    /\ ret' = Returned([finalXP |-> xp, steps |-> steps])
    /\ UNCHANGED <<call, args, xp, steps, i>>

\* The caller takes the outcome; the locals of the call are gone.
Release ==
    /\ pc = "done"
    /\ pc' = "idle"
    /\ call' = "none"
    /\ args' = <<>>
    /\ ret' = NoValue
    /\ xp' = 0
    /\ steps' = <<>>
    /\ i' = 0

Next ==
    \/ CallRenderProgressBar
    \/ CallXpForNextLevel
    \/ CallTotalXPForLevel
    \/ CallGetLevelFromXP
    \/ CallGetXPStatus
    \/ CallXpBetweenLevels
    \/ CallLevelThresholds
    \/ CallSimulateXPGain
    \/ SimulateStep
    \/ SimulateReturn
    \/ Release

Spec == Init /\ [][Next]_vars

\* ------------------------------------------------------------- properties
Called(name) == pc = "done" /\ call = name

\* Sum of the first k elements of a sequence of integers.
RECURSIVE PrefixSum(_, _)
PrefixSum(q, k) == IF k = 0 THEN 0 ELSE PrefixSum(q, k - 1) + q[k]

\* Sum of xpForNextLevel over from <= L < to.
RECURSIVE CostSum(_, _)
CostSum(from, to) == IF from >= to THEN 0 ELSE xpForNextLevel(from) + CostSum(from + 1, to)

\* C1: for every level L >= 0 the cumulative threshold of L+1 minus that of
\* L is exactly the level-up cost of L, both being integers (the dividends
\* of the two divided ranges are even), the range switches 15, 16, 30 and 31
\* included.
C1_ThresholdStepIsCost ==
    (Called("totalXPForLevel") /\ args[1] >= 0) =>
        LET L == args[1]
        IN  /\ totalXPForLevel(L + 1) - ret.value = xpForNextLevel(L)
            /\ \A M \in {L, L + 1} :
                  /\ (16 < M /\ M <= 31) => middleDividend(M) % 2 = 0
                  /\ M > 31 => upperDividend(M) % 2 = 0

C1_Witness ==
    /\ Called("totalXPForLevel")
    /\ args[1] = 31
    /\ ret.value = 1507
    /\ totalXPForLevel(32) = 1628

\* C2: for every experience X >= 0 getLevelFromXP returns, after at most X
\* iterations, the one level L >= 0 with threshold(L) <= X < threshold(L+1);
\* it returns 0 for X = 0 and 30 for X = 1500.
C2_LevelIsInverse ==
    (Called("getLevelFromXP") /\ args[1] >= 0) =>
        LET X == args[1]
            L == ret.value
        IN  /\ 0 <= L /\ L <= X
            /\ totalXPForLevel(L) <= X /\ X < totalXPForLevel(L + 1)
            /\ \A M \in 0..(X + 1) :
                  (totalXPForLevel(M) <= X /\ X < totalXPForLevel(M + 1)) => M = L
            /\ X = 0 => L = 0
            /\ X = 1500 => L = 30

C2_Witness == Called("getLevelFromXP") /\ args[1] = 1500 /\ ret.value = 30

\* C3: for X0 >= 0 and non-negative gains g1..gn simulateXPGain returns
\* finalXP = X0 + g1 + ... + gn and exactly n steps, the k-th being
\* getXPStatus(X0 + g1 + ... + gk) at the default width 20; for n = 0 it
\* returns finalXP = X0 and no steps.
C3_SimulationEquivalence ==
    (Called("simulateXPGain") /\ args[1] >= 0 /\ \A k \in DOMAIN args[2] : args[2][k] >= 0) =>
        LET X0 == args[1]
            gains == args[2]
        IN  /\ ~ret.threw
            /\ ret.value.finalXP = X0 + PrefixSum(gains, Len(gains))
            /\ Len(ret.value.steps) = Len(gains)
            /\ \A k \in 1..Len(gains) :
                  ret.value.steps[k] = getXPStatus(X0 + PrefixSum(gains, k), 20).value
            /\ gains = <<>> => (ret.value.finalXP = X0 /\ ret.value.steps = <<>>)

C3_Witness ==
    /\ Called("simulateXPGain")
    /\ args = <<1000, <<50, 200, 300>>>>
    /\ ret.value.finalXP = 1550
    /\ Len(ret.value.steps) = 3
    /\ ret.value.steps[3].totalXP = 1550

\* C4: xpBetweenLevels throws and returns nothing when startLevel > endLevel;
\* when startLevel <= endLevel it returns threshold(endLevel) -
\* threshold(startLevel), which is non-negative and, for startLevel >= 0, the
\* sum of the level-up costs of the levels startLevel .. endLevel - 1 (155
\* for 10 to 15).
C4_BetweenLevels ==
    Called("xpBetweenLevels") =>
        LET startLevel == args[1]
            endLevel == args[2]
        IN  /\ startLevel > endLevel => ret.threw
            /\ startLevel <= endLevel =>
                  /\ ~ret.threw
                  /\ ret.value = totalXPForLevel(endLevel) - totalXPForLevel(startLevel)
                  /\ ret.value >= 0
                  /\ startLevel >= 0 => ret.value = CostSum(startLevel, endLevel)
            /\ (startLevel = 10 /\ endLevel = 15) => ret.value = 155

C4_Witness == Called("xpBetweenLevels") /\ args = <<15, 10>> /\ ret.threw

\* The bar with f filled cells out of w.
Bar(f, w) == <<"[">> \o [j \in 1..f |-> "#"] \o [j \in 1..(w - f) |-> "-"] \o <<"]">>

\* min(c / t, 1) * w rounded to the nearest integer, ties away from zero, in
\* exact arithmetic (c >= 0, t > 0, w > 0).
ExactFilled(c, t, w) == IF c >= t THEN w ELSE (2 * c * w + t) \div (2 * t)

\* C5: for current >= 0, total > 0 and a positive width the bar is "[", then
\* filled "#", then width - filled "-", then "]", with filled =
\* min(current / total, 1) * width rounded to the nearest integer, ties away
\* from zero; so its length is width + 2 and 0 <= filled <= width.
C5_BarIsExactRounding ==
    (Called("renderProgressBar") /\ args[1] >= 0 /\ args[2] > 0) =>
        LET filled == ExactFilled(args[1], args[2], args[3])
        IN  /\ ~ret.threw
            /\ 0 <= filled /\ filled <= args[3]
            /\ ret.value = Bar(filled, args[3])
            /\ Len(ret.value) = args[3] + 2

\* C6: renderProgressBar with total = 0 (current >= 0) ends in an error, it
\* returns no bar.
C6_ZeroTotalIsError ==
    (Called("renderProgressBar") /\ args[1] >= 0 /\ args[2] = 0) => ret.threw

\* C7: for X >= 0 and a positive width every field of getXPStatus follows
\* from the others: level = getLevelFromXP(X), xpAtCurrentLevelStart =
\* totalXPForLevel(level), xpInLevel = X - xpAtCurrentLevelStart,
\* xpForLevelUp = xpForNextLevel(level), xpNeeded = xpForLevelUp - xpInLevel,
\* progressBar = renderProgressBar(xpInLevel, xpForLevelUp, width), and
\* 0 <= xpInLevel <= xpForLevelUp with xpForLevelUp > 0, so that the ratio is
\* in [0, 1] (X = 1500: level 30, start 1395, in level 105, cost 112, needed 7).
C7_StatusConsistent ==
    (Called("getXPStatus") /\ args[1] >= 0) =>
        /\ ~ret.threw
        /\ LET X == args[1]
               st == ret.value
           IN  /\ st.totalXP = X
               /\ st.level = getLevelFromXP(X)
               /\ st.xpAtCurrentLevelStart = totalXPForLevel(st.level)
               /\ st.xpInLevel = X - st.xpAtCurrentLevelStart
               /\ st.xpForLevelUp = xpForNextLevel(st.level)
               /\ st.xpNeeded = st.xpForLevelUp - st.xpInLevel
               /\ st.progressBar = renderProgressBar(st.xpInLevel, st.xpForLevelUp, args[2]).value
               /\ st.xpForLevelUp > 0
               /\ 0 <= st.xpInLevel /\ st.xpInLevel <= st.xpForLevelUp
               /\ st.progressRatio = NumDiv(st.xpInLevel, st.xpForLevelUp)
               /\ \/ st.progressRatio = Zero
                  \/ st.progressRatio = One
                  \/ st.progressRatio.k = "fin" /\ st.progressRatio.s = 1 /\ st.progressRatio.e < 0
               /\ X = 1500 =>
                     /\ st.level = 30
                     /\ st.xpAtCurrentLevelStart = 1395
                     /\ st.xpInLevel = 105
                     /\ st.xpForLevelUp = 112
                     /\ st.xpNeeded = 7

C7_Witness ==
    /\ Called("getXPStatus")
    /\ args = <<1500, 20>>
    /\ ret.value.level = 30
    /\ ret.value.xpNeeded = 7
    /\ ret.value.progressBar = Bar(19, 20)

\* C8: the cumulative threshold is strictly increasing from level 0 on and
\* is 0 at level 0: the entries of levelThresholds(N) are the levels 0..N in
\* order, each with its threshold, every threshold above the one before.
C8_ThresholdsIncrease ==
    (Called("levelThresholds") /\ args[1] >= 0) =>
        LET table == ret.value
        IN  /\ Len(table) = args[1] + 1
            /\ table[1] = [level |-> 0, totalXP |-> 0]
            /\ \A k \in 1..Len(table) :
                  /\ table[k].level = k - 1
                  /\ table[k].totalXP = totalXPForLevel(k - 1)
            /\ \A k \in 1..(Len(table) - 1) : table[k + 1].totalXP > table[k].totalXP

C8_Witness ==
    /\ Called("levelThresholds")
    /\ args[1] = 32
    /\ ret.value[17].totalXP = 352
    /\ ret.value[18].totalXP = 394
    /\ ret.value[32].totalXP = 1507
    /\ ret.value[33].totalXP = 1628

\* Whether some running total of the call is negative.
RunsNegative == \E k \in 1..Len(args[2]) : args[1] + PrefixSum(args[2], k) < 0

\* C9 as stated: simulateXPGain accepts any integer deltas, negative ones and
\* running totals below zero included: the call ends without an error and
\* returns the final sum with one status per delta.
C9_NeverThrows ==
    Called("simulateXPGain") =>
        /\ ~ret.threw
        /\ ret.value.finalXP = args[1] + PrefixSum(args[2], Len(args[2]))
        /\ Len(ret.value.steps) = Len(args[2])

\* C9 amended: simulateXPGain does not check the sign of a delta.  The call
\* ends without an error, returning the final sum with one status per delta,
\* exactly when no running total is negative; at the first negative running
\* total the bar rendering throws a RangeError, which ends the call.
C9_ThrowsIffRunsNegative ==
    Called("simulateXPGain") =>
        /\ ret.threw <=> RunsNegative
        /\ ret.threw => ret.value = "RangeError"
        /\ ret.threw =>
              /\ xp < 0
              /\ xp = args[1] + PrefixSum(args[2], i + 1)
              /\ \A k \in 1..i : args[1] + PrefixSum(args[2], k) >= 0
        /\ ~ret.threw =>
              /\ ret.value.finalXP = args[1] + PrefixSum(args[2], Len(args[2]))
              /\ Len(ret.value.steps) = Len(args[2])

C9_Witness ==
    /\ Called("simulateXPGain")
    /\ args = <<3, <<7, -8, 0>>>>
    /\ ~ret.threw
    /\ ret.value.finalXP = 2
    /\ Len(ret.value.steps) = 3

\* C10: with X0 >= 0 and every gain >= 0, along the steps the total and the
\* level never go down, the first level is at least the level of X0, and a
\* step's level is above the previous step's exactly when its gain is at
\* least the previous step's xpNeeded.
C10_LevelNeverDrops ==
    (call = "simulateXPGain" /\ args[1] >= 0 /\ \A k \in DOMAIN args[2] : args[2][k] >= 0) =>
        /\ \A k \in 1..Len(steps) :
              /\ steps[k].totalXP >= (IF k = 1 THEN args[1] ELSE steps[k - 1].totalXP)
              /\ steps[k].level >= (IF k = 1 THEN getLevelFromXP(args[1]) ELSE steps[k - 1].level)
        /\ \A k \in 2..Len(steps) :
              steps[k].level > steps[k - 1].level <=> args[2][k] >= steps[k - 1].xpNeeded

C10_Witness ==
    /\ Called("simulateXPGain")
    /\ args = <<0, <<7, 7, 50>>>>
    /\ steps[1].level = 1
    /\ steps[2].level = 1
    /\ steps[2].xpNeeded = 2
    /\ steps[3].level = 5
====
